---- MODULE Spec2Model ----
(***************************************************************************)
(* A model of game_clock's `Time` (src/src/lib.rs): the frame clock with   *)
(* a fixed-timestep accumulator and a time-scale multiplier.               *)
(*                                                                         *)
(* A Duration is a whole number of nanoseconds.  An f32 is a sign, a class *)
(* (finite, inf, nan) and a magnitude counted in units of 1/One, kept to   *)
(* MantBits significant bits with round-half-to-even, so that the          *)
(* conversions Duration -> f32 -> Duration made by Duration::mul_f32 lose  *)
(* low-order bits the way the 24-bit significand of an f32 does.           *)
(*                                                                         *)
(* Spec runs the clock on frame lengths, intervals and scales far from the *)
(* ends of the Duration, f32 and u64 ranges; SpecEdge runs it at the top   *)
(* of those ranges, where Duration arithmetic and the frame count can      *)
(* overflow.                                                               *)
(***************************************************************************)
EXTENDS Integers, Naturals, Sequences, FiniteSets

\* ------------------------------------------------------------------ sizes
\* Significand width of an f32 (f32::MANTISSA_DIGITS).
MantBits == 24
\* The f32 grid: a finite f32 of magnitude m stands for the number m / One.
One == 2
\* The largest Duration, in nanoseconds.  Duration::MAX is u64::MAX seconds
\* and 999,999,999 ns; the model's integers have 31 bits, so the range is
\* scaled down and kept above every total the frames of Diffs can reach.
DurationMax == 200000000
\* The largest finite f32 magnitude, in units of 1/One.  As with f32::MAX and
\* Duration::MAX, every Duration converts to a finite f32.
F32MaxMag == 700000000
\* The largest frame_number (u64::MAX), scaled down likewise.
U64Max == 1000000
\* advance_frame is offered while fewer than MaxFrames calls were made.
MaxFrames == 2
\* step_fixed_update is offered while fewer than MaxTrue calls returned true.
MaxTrue == 3

\* ------------------------------------------------------------------ f32
F32(m) == [cls |-> "finite", neg |-> FALSE, mag |-> m]
NegF32(m) == [cls |-> "finite", neg |-> TRUE, mag |-> m]
NaN == [cls |-> "nan", neg |-> FALSE, mag |-> 0]
Infinity == [cls |-> "inf", neg |-> FALSE, mag |-> 0]
NegInfinity == [cls |-> "inf", neg |-> TRUE, mag |-> 0]

\* IEEE-754 comparison a >= b: false when either side is NaN; -0.0 = +0.0.
f32_ge(a, b) ==
    IF a.cls = "nan" \/ b.cls = "nan" THEN FALSE
    ELSE IF a.cls = "inf" THEN (~a.neg) \/ (b.cls = "inf" /\ b.neg)
    ELSE IF b.cls = "inf" THEN b.neg
    ELSE (IF a.neg THEN 0 - a.mag ELSE a.mag) >= (IF b.neg THEN 0 - b.mag ELSE b.mag)

\* IEEE-754 comparison a != b: true when either side is NaN; -0.0 = +0.0.
f32_ne(a, b) ==
    IF a.cls = "nan" \/ b.cls = "nan" THEN TRUE
    ELSE IF a.cls = "inf" \/ b.cls = "inf" THEN ~(a.cls = b.cls /\ a.neg = b.neg)
    ELSE ~(a.mag = b.mag /\ (a.neg = b.neg \/ a.mag = 0))

Pow2(k) == 2 ^ k

\* n / d rounded to the nearest integer, ties to the even one.
RoundHalfEven(n, d) ==
    LET q == n \div d
        r == n % d
    IN  IF 2 * r < d THEN q
        ELSE IF 2 * r > d THEN q + 1
        ELSE IF q % 2 = 0 THEN q ELSE q + 1

\* The least k with n / (d * 2^k) below 2^MantBits: the exponent of the last
\* significand bit of n / d.
RECURSIVE UlpShift(_, _, _)
UlpShift(n, d, k) ==
    IF n \div (d * Pow2(k)) < Pow2(MantBits) THEN k ELSE UlpShift(n, d, k + 1)

\* n / d rounded to MantBits significant bits.
round_f32(n, d) ==
    LET k == UlpShift(n, d, 0)
    IN  RoundHalfEven(n, d * Pow2(k)) * Pow2(k)

\* Duration::as_secs_f32: the duration as an f32.
as_secs_f32(d) == F32(round_f32(d * One, 1))

\* f32 multiplication rhs * x.
f32_mul(a, b) ==
    IF a.cls = "nan" \/ b.cls = "nan" THEN NaN
    ELSE IF a.cls = "inf" \/ b.cls = "inf"
    THEN IF (a.cls = "finite" /\ a.mag = 0) \/ (b.cls = "finite" /\ b.mag = 0)
         THEN NaN
         ELSE [cls |-> "inf", neg |-> (a.neg # b.neg), mag |-> 0]
    ELSE IF b.mag > 0 /\ a.mag > (F32MaxMag * One) \div b.mag
    THEN [cls |-> "inf", neg |-> (a.neg # b.neg), mag |-> 0]
    ELSE [cls |-> "finite", neg |-> (a.neg # b.neg),
          mag |-> round_f32(a.mag * b.mag, One)]

\* The result of an operation that panicked instead of yielding a Duration.
NoDuration == -1

\* Duration::from_secs_f32: panics on a negative, infinite or NaN value and
\* on one beyond Duration::MAX, otherwise rounds to the nearest nanosecond.
from_secs_f32(x) ==
    IF x.cls # "finite" THEN NoDuration
    ELSE IF x.neg /\ x.mag # 0 THEN NoDuration
    ELSE IF RoundHalfEven(x.mag, One) > DurationMax THEN NoDuration
    ELSE RoundHalfEven(x.mag, One)

\* Duration::mul_f32(self, rhs) = Duration::from_secs_f32(rhs * self.as_secs_f32()).
mul_f32(d, rhs) == from_secs_f32(f32_mul(rhs, as_secs_f32(d)))

\* Duration's `+=`: checked_add, panicking "overflow when adding durations".
checked_add(a, b) == IF b > DurationMax - a THEN NoDuration ELSE a + b

\* The result of `frame_number += 1` that panicked.
NoCount == -1

\* u64 `+= 1`: past u64::MAX a build with overflow checks (debug) panics and a
\* build without them (release) wraps to 0.
u64_add_one(n, overflow_checks) ==
    IF n < U64Max THEN n + 1
    ELSE IF overflow_checks THEN NoCount
    ELSE 0

\* ------------------------------------------------------------------ Time
\* A default clock whose interval is 1/60 s rounded up to the nanosecond.
Time_default_rounded_up ==
    [delta_time |-> 0,
     delta_real_time |-> 0,
     fixed_time |-> 16666667,
     fixed_time_accumulator |-> 0,
     frame_number |-> 0,
     absolute_real_time |-> 0,
     absolute_time |-> 0,
     time_scale |-> F32(One)]

\* impl Default for Time.
Time_default ==
    [delta_time |-> 0,
     delta_real_time |-> 0,
     fixed_time |-> 16666666,
     fixed_time_accumulator |-> 0,
     frame_number |-> 0,
     absolute_real_time |-> 0,
     absolute_time |-> 0,
     time_scale |-> F32(One)]

\* What a call yields: the clock afterwards, whether the call panicked, and
\* the value returned (FALSE for the calls that return nothing).
Outcome(self, panic, ret) == [time |-> self, panic |-> panic, ret |-> ret]

\* advance_frame banking the scaled delta: the accumulator would follow
\* time_scale.
advance_frame_scaled_accumulator(self, time_diff, overflow_checks) ==
    LET dt == mul_f32(time_diff, self.time_scale)
    IN  IF dt = NoDuration THEN Outcome(self, TRUE, FALSE)
        ELSE Outcome(
            [self EXCEPT !.delta_time = dt,
                         !.delta_real_time = time_diff,
                         !.frame_number = @ + 1,
                         !.absolute_time = @ + dt,
                         !.absolute_real_time = @ + time_diff,
                         !.fixed_time_accumulator = @ + dt],
            FALSE, FALSE)

\* advance_frame forgetting the multiplier: delta_time is the raw time_diff.
advance_frame_unscaled_delta(self, time_diff, overflow_checks) ==
    Outcome(
        [self EXCEPT !.delta_time = time_diff,
                     !.delta_real_time = time_diff,
                     !.frame_number = @ + 1,
                     !.absolute_time = @ + time_diff,
                     !.absolute_real_time = @ + time_diff,
                     !.fixed_time_accumulator = @ + time_diff],
        FALSE, FALSE)

\* advance_frame scaling the previous frame's delta_real_time instead of the
\* argument.
advance_frame_scales_previous(self, time_diff, overflow_checks) ==
    LET dt == mul_f32(self.delta_real_time, self.time_scale)
    IN  IF dt = NoDuration THEN Outcome(self, TRUE, FALSE)
        ELSE Outcome(
            [self EXCEPT !.delta_time = dt,
                         !.delta_real_time = time_diff,
                         !.frame_number = @ + 1,
                         !.absolute_time = @ + dt,
                         !.absolute_real_time = @ + time_diff,
                         !.fixed_time_accumulator = @ + time_diff],
            FALSE, FALSE)

\* advance_frame without `self.frame_number += 1`.
advance_frame_no_count(self, time_diff, overflow_checks) ==
    LET dt == mul_f32(time_diff, self.time_scale)
    IN  IF dt = NoDuration THEN Outcome(self, TRUE, FALSE)
        ELSE Outcome(
            [self EXCEPT !.delta_time = dt,
                         !.delta_real_time = time_diff,
                         !.absolute_time = @ + dt,
                         !.absolute_real_time = @ + time_diff,
                         !.fixed_time_accumulator = @ + time_diff],
            FALSE, FALSE)

\* advance_frame with `=` for `+=` on absolute_time.
advance_frame_overwrites_total(self, time_diff, overflow_checks) ==
    LET dt == mul_f32(time_diff, self.time_scale)
    IN  IF dt = NoDuration THEN Outcome(self, TRUE, FALSE)
        ELSE Outcome(
            [self EXCEPT !.delta_time = dt,
                         !.delta_real_time = time_diff,
                         !.frame_number = @ + 1,
                         !.absolute_time = dt,
                         !.absolute_real_time = @ + time_diff,
                         !.fixed_time_accumulator = @ + time_diff],
            FALSE, FALSE)

\* advance_frame with `=` for `+=` on fixed_time_accumulator: time not yet
\* drained is forgotten at the next frame.
advance_frame_restarts_accumulator(self, time_diff, overflow_checks) ==
    LET dt == mul_f32(time_diff, self.time_scale)
    IN  IF dt = NoDuration THEN Outcome(self, TRUE, FALSE)
        ELSE Outcome(
            [self EXCEPT !.delta_time = dt,
                         !.delta_real_time = time_diff,
                         !.frame_number = @ + 1,
                         !.absolute_time = @ + dt,
                         !.absolute_real_time = @ + time_diff,
                         !.fixed_time_accumulator = time_diff],
            FALSE, FALSE)

\* advance_frame treating a frame without scaled time as a paused frame: it
\* is counted, and neither total nor the accumulator moves.
advance_frame_paused_skips(self, time_diff, overflow_checks) ==
    LET dt == mul_f32(time_diff, self.time_scale)
    IN  IF dt = NoDuration THEN Outcome(self, TRUE, FALSE)
        ELSE IF dt = 0
        THEN Outcome([self EXCEPT !.delta_time = dt,
                                  !.delta_real_time = time_diff,
                                  !.frame_number = @ + 1],
                     FALSE, FALSE)
        ELSE Outcome(
            [self EXCEPT !.delta_time = dt,
                         !.delta_real_time = time_diff,
                         !.frame_number = @ + 1,
                         !.absolute_time = @ + dt,
                         !.absolute_real_time = @ + time_diff,
                         !.fixed_time_accumulator = @ + time_diff],
            FALSE, FALSE)

\* Time::advance_frame, statement by statement: a statement that panics ends
\* the call and leaves the fields written before it.  overflow_checks tells
\* whether the build checks integer overflow.
advance_frame(self, time_diff, overflow_checks) ==
    LET dt == mul_f32(time_diff, self.time_scale)
        s1 == [self EXCEPT !.delta_time = dt, !.delta_real_time = time_diff]
        fn == u64_add_one(s1.frame_number, overflow_checks)
        s2 == [s1 EXCEPT !.frame_number = fn]
        at == checked_add(s2.absolute_time, s2.delta_time)
        s3 == [s2 EXCEPT !.absolute_time = at]
        art == checked_add(s3.absolute_real_time, s3.delta_real_time)
        s4 == [s3 EXCEPT !.absolute_real_time = art]
        acc == checked_add(s4.fixed_time_accumulator, s4.delta_real_time)
        s5 == [s4 EXCEPT !.fixed_time_accumulator = acc]
    IN  IF dt = NoDuration THEN Outcome(self, TRUE, FALSE)
        ELSE IF fn = NoCount THEN Outcome(s1, TRUE, FALSE)
        ELSE IF at = NoDuration THEN Outcome(s2, TRUE, FALSE)
        ELSE IF art = NoDuration THEN Outcome(s3, TRUE, FALSE)
        ELSE IF acc = NoDuration THEN Outcome(s4, TRUE, FALSE)
        ELSE Outcome(s5, FALSE, FALSE)

\* set_fixed_time starting the new interval from an empty accumulator.
set_fixed_time_resets_accumulator(self, time) ==
    Outcome([self EXCEPT !.fixed_time = time, !.fixed_time_accumulator = 0],
            FALSE, FALSE)

\* Time::set_fixed_time.
set_fixed_time(self, time) ==
    Outcome([self EXCEPT !.fixed_time = time], FALSE, FALSE)

\* set_time_scale without the assertion against infinity.
set_time_scale_accepts_infinity(self, multiplier) ==
    IF ~f32_ge(multiplier, F32(0)) THEN Outcome(self, TRUE, FALSE)
    ELSE Outcome([self EXCEPT !.time_scale = multiplier], FALSE, FALSE)

\* set_time_scale rescaling the current frame's delta_time as well.
set_time_scale_rescales_delta(self, multiplier) ==
    IF ~f32_ge(multiplier, F32(0)) THEN Outcome(self, TRUE, FALSE)
    ELSE IF ~f32_ne(multiplier, Infinity) THEN Outcome(self, TRUE, FALSE)
    ELSE Outcome([self EXCEPT !.time_scale = multiplier,
                              !.delta_time = mul_f32(self.delta_real_time, multiplier)],
                 FALSE, FALSE)

\* Time::set_time_scale: both assertions come before the assignment.
set_time_scale(self, multiplier) ==
    IF ~f32_ge(multiplier, F32(0)) THEN Outcome(self, TRUE, FALSE)
    ELSE IF ~f32_ne(multiplier, Infinity) THEN Outcome(self, TRUE, FALSE)
    ELSE Outcome([self EXCEPT !.time_scale = multiplier], FALSE, FALSE)

\* step_fixed_update comparing with `>`: a tie owes no step.
step_fixed_update_strict(self) ==
    IF self.fixed_time_accumulator > self.fixed_time
    THEN Outcome([self EXCEPT !.fixed_time_accumulator = @ - self.fixed_time],
                 FALSE, TRUE)
    ELSE Outcome(self, FALSE, FALSE)

\* step_fixed_update refusing to step on a zero interval.
step_fixed_update_guards_zero(self) ==
    IF self.fixed_time > 0 /\ self.fixed_time_accumulator >= self.fixed_time
    THEN Outcome([self EXCEPT !.fixed_time_accumulator = @ - self.fixed_time],
                 FALSE, TRUE)
    ELSE Outcome(self, FALSE, FALSE)

\* step_fixed_update emptying the accumulator in one step.
step_fixed_update_clears(self) ==
    IF self.fixed_time_accumulator >= self.fixed_time
    THEN Outcome([self EXCEPT !.fixed_time_accumulator = 0], FALSE, TRUE)
    ELSE Outcome(self, FALSE, FALSE)

\* step_fixed_update discarding the remainder once no step is owed.
step_fixed_update_drops_remainder(self) ==
    IF self.fixed_time_accumulator >= self.fixed_time
    THEN Outcome([self EXCEPT !.fixed_time_accumulator = @ - self.fixed_time],
                 FALSE, TRUE)
    ELSE Outcome([self EXCEPT !.fixed_time_accumulator = 0], FALSE, FALSE)

\* Time::step_fixed_update.
step_fixed_update(self) ==
    IF self.fixed_time_accumulator >= self.fixed_time
    THEN Outcome([self EXCEPT !.fixed_time_accumulator = @ - self.fixed_time],
                 FALSE, TRUE)
    ELSE Outcome(self, FALSE, FALSE)

\* The draining loop `while time.step_fixed_update() {}`: the number of true
\* returns before the first false one.  With fixed_time = 0 the loop never
\* ends, so it is only run for a positive interval.
RECURSIVE drain(_)
drain(self) ==
    LET out == step_fixed_update(self)
    IN  IF out.ret THEN 1 + drain(out.time) ELSE 0

\* ------------------------------------------------------------------ inputs
\* Frame durations fed to advance_frame, in nanoseconds.
Diffs == {0, 8333333, 16666667}
\* Intervals given to set_fixed_time.
FixedTimes == {0, 8333333, 16666666}
\* Multipliers set_time_scale accepts: 0.0, -0.0, 1.0 and 1.5.
ValidScales ==
    {F32(0), NegF32(0), F32(One), F32(One + One \div 2)}
\* Multipliers set_time_scale rejects.
InvalidScales == {NegF32(One), NaN, Infinity, NegInfinity}
Scales == ValidScales \cup InvalidScales

\* ------------------------------------------------------------------ state
VARIABLES
    time,          \* the clock
    twin,          \* a second clock, given the same calls except set_time_scale
    last,          \* the latest call: its name and outcome on either clock
    n_advance,     \* advance_frame calls made since Init
    n_true,        \* step_fixed_update calls that returned true
    sum_real,      \* the time_diff arguments of the advance_frame calls, summed
    sum_scaled,    \* the delta_time values those calls produced, summed
    in_loop,       \* no advance_frame so far came while a fixed update was owed
    fixed_changed  \* fixed_time was changed after frames or steps had run

vars == <<time, twin, last, n_advance, n_true, sum_real, sum_scaled,
          in_loop, fixed_changed>>

Call(op, out, twin_out) ==
    [op |-> op,
     panic |-> out.panic, ret |-> out.ret,
     twin_panic |-> twin_out.panic, twin_ret |-> twin_out.ret]

Init ==
    /\ time = Time_default
    /\ twin = Time_default
    /\ last = Call("default",
                   Outcome(Time_default, FALSE, FALSE), Outcome(Time_default, FALSE, FALSE))
    /\ n_advance = 0
    /\ n_true = 0
    /\ sum_real = 0
    /\ sum_scaled = 0
    /\ in_loop = TRUE
    /\ fixed_changed = FALSE

\* The owner's loop calls advance_frame(time_diff) on both clocks, in a build
\* with or without integer overflow checks.
AdvanceFrameCall(time_diff) ==
    \E overflow_checks \in BOOLEAN :
        LET out == advance_frame(time, time_diff, overflow_checks)
            twin_out == advance_frame(twin, time_diff, overflow_checks)
        IN  /\ n_advance < MaxFrames
            /\ time' = out.time
            /\ twin' = twin_out.time
            /\ last' = Call("advance_frame", out, twin_out)
            /\ n_advance' = n_advance + 1
            /\ sum_real' = IF out.panic THEN sum_real ELSE sum_real + time_diff
            /\ sum_scaled' = IF out.panic THEN sum_scaled
                             ELSE sum_scaled + mul_f32(time_diff, time.time_scale)
            /\ in_loop' = (in_loop /\ time.fixed_time_accumulator < time.fixed_time)
            /\ UNCHANGED <<n_true, fixed_changed>>

AdvanceFrame == \E time_diff \in Diffs : AdvanceFrameCall(time_diff)

\* The owner calls set_fixed_time(t) on both clocks.
SetFixedTimeCall(t) ==
    LET out == set_fixed_time(time, t)
        twin_out == set_fixed_time(twin, t)
    IN  /\ time' = out.time
        /\ twin' = twin_out.time
        /\ last' = Call("set_fixed_time", out, twin_out)
        /\ fixed_changed' =
               (fixed_changed \/ (t # time.fixed_time /\ (n_advance > 0 \/ n_true > 0)))
        /\ UNCHANGED <<n_advance, n_true, sum_real, sum_scaled, in_loop>>

SetFixedTime == \E t \in FixedTimes : SetFixedTimeCall(t)

\* The owner calls set_time_scale(multiplier) on the clock; the second clock
\* keeps the default time scale.
SetTimeScaleCall(multiplier) ==
    LET out == set_time_scale(time, multiplier)
    IN  /\ time' = out.time
        /\ last' = Call("set_time_scale", out, Outcome(twin, FALSE, FALSE))
        /\ UNCHANGED <<twin, n_advance, n_true, sum_real, sum_scaled,
                       in_loop, fixed_changed>>

SetTimeScale == \E multiplier \in Scales : SetTimeScaleCall(multiplier)

\* The owner calls step_fixed_update() on both clocks.
StepFixedUpdate ==
    LET out == step_fixed_update(time)
        twin_out == step_fixed_update(twin)
    IN  /\ out.ret => n_true < MaxTrue
        /\ time' = out.time
        /\ twin' = twin_out.time
        /\ last' = Call("step_fixed_update", out, twin_out)
        /\ n_true' = IF out.ret THEN n_true + 1 ELSE n_true
        /\ UNCHANGED <<n_advance, sum_real, sum_scaled, in_loop, fixed_changed>>

Next == AdvanceFrame \/ SetFixedTime \/ SetTimeScale \/ StepFixedUpdate

Spec == Init /\ [][Next]_vars

\* ------------------------------------------------- the top of the ranges
\* Frame lengths up to Duration::MAX and valid scales up to f32::MAX.
EdgeDiffs == {0, 16666667, DurationMax - 16666667, DurationMax}
EdgeScales == {F32(One), F32(One + One), F32(F32MaxMag)}

\* The clock after U64Max - 1 empty frames, advance_frame(Duration::ZERO),
\* which change frame_number alone.
InitEdge ==
    /\ time = [Time_default EXCEPT !.frame_number = U64Max - 1]
    /\ twin = time
    /\ last = Call("default", Outcome(time, FALSE, FALSE), Outcome(twin, FALSE, FALSE))
    /\ n_advance = 0
    /\ n_true = 0
    /\ sum_real = 0
    /\ sum_scaled = 0
    /\ in_loop = TRUE
    /\ fixed_changed = FALSE

AdvanceFrameEdge == \E time_diff \in EdgeDiffs : AdvanceFrameCall(time_diff)

SetTimeScaleEdge == \E multiplier \in EdgeScales : SetTimeScaleCall(multiplier)

NextEdge == AdvanceFrameEdge \/ SetTimeScaleEdge \/ StepFixedUpdate

SpecEdge == InitEdge /\ [][NextEdge]_vars

\* ------------------------------------------------------------------ claims
\* The latest call was step_fixed_update and it returned false: the draining
\* loop `while time.step_fixed_update() {}` has just ended.
Drained == last.op = "step_fixed_update" /\ ~last.ret

\* C1: with a fixed interval F > 0 that the run never changes, and every
\* advance_frame followed by draining until false, the number of true returns
\* so far is floor(sum of the real deltas / F) whenever draining has ended.
C1_FixedStepCountLaw ==
    (in_loop /\ ~fixed_changed /\ time.fixed_time > 0 /\ Drained)
        => n_true = sum_real \div time.fixed_time

\* Two frames (8333333 ns, then 16666667 ns) at F = 8333333 ns, each drained:
\* one step on the tie, two more on the second frame, 1 ns left over.
C1_Witness ==
    /\ in_loop /\ ~fixed_changed /\ Drained
    /\ time.fixed_time = 8333333
    /\ n_advance = 2
    /\ sum_real = 25000000
    /\ n_true = 3
    /\ time.fixed_time_accumulator = 1

\* C2: a clock whose time scale is set to any valid values at any points and
\* a clock left at the default scale, given the same frames, intervals and
\* steps, return the same from every step_fixed_update and hold the same
\* fixed_time_accumulator and absolute_real_time after every call.  (Any two
\* clocks that each agree with the default-scale clock agree with each other.)
C2_ScaleIndependentCadence ==
    /\ time.fixed_time = twin.fixed_time
    /\ time.fixed_time_accumulator = twin.fixed_time_accumulator
    /\ time.absolute_real_time = twin.absolute_real_time
    /\ last.ret = last.twin_ret
    /\ last.op # "set_time_scale" => last.panic = last.twin_panic

\* The clocks differ in time scale and in scaled time, and a step was taken.
C2_Witness ==
    /\ time.time_scale # twin.time_scale
    /\ time.absolute_time # twin.absolute_time
    /\ time.delta_time # twin.delta_time
    /\ last.op = "step_fixed_update" /\ last.ret /\ last.twin_ret
    /\ n_true >= 2

\* C3: with fixed_time > 0, once step_fixed_update has returned false the
\* accumulator lies in [0, fixed_time).
C3_DrainedBelowInterval ==
    (Drained /\ time.fixed_time > 0)
        => /\ time.fixed_time_accumulator >= 0
           /\ time.fixed_time_accumulator < time.fixed_time

\* Draining ended after at least one step, with time left in the accumulator.
C3_Witness ==
    /\ Drained
    /\ time.fixed_time > 0
    /\ n_true >= 1
    /\ time.fixed_time_accumulator > 0

\* C4: in every reachable state delta_time equals delta_real_time multiplied
\* by the current time_scale.
C4_DeltaIsScaledReal ==
    time.delta_time = mul_f32(time.delta_real_time, time.time_scale)

\* C4, amended: advance_frame leaves delta_time equal to delta_real_time
\* multiplied by time_scale, which it does not change; no other call changes
\* delta_time or delta_real_time, so after set_time_scale the product is the
\* one with the time scale of the latest advance_frame.
C4_DeltaScaledAtFrame ==
    [][/\ (last'.op = "advance_frame" /\ ~last'.panic)
            => /\ time'.delta_time = mul_f32(time'.delta_real_time, time'.time_scale)
               /\ time'.time_scale = time.time_scale
       /\ last'.op # "advance_frame"
            => /\ time'.delta_time = time.delta_time
               /\ time'.delta_real_time = time.delta_real_time]_vars

\* set_time_scale has changed the scale after a frame, and delta_time is still
\* the product made at that frame.
C4_Witness ==
    /\ last.op = "set_time_scale" /\ ~last.panic
    /\ n_advance >= 1
    /\ time.delta_real_time = 16666667
    /\ time.delta_time = 16666667
    /\ time.time_scale = F32(One + One \div 2)

\* time_scale is finite and >= 0 (not NaN, not infinite, not below zero).
TimeScaleValid ==
    /\ time.time_scale.cls = "finite"
    /\ f32_ge(time.time_scale, F32(0))

\* C5: set_time_scale panics on a negative, infinite (either sign) or NaN
\* multiplier and then stores nothing; a valid multiplier is stored; so
\* time_scale is valid in every reachable state, and only a set_time_scale that
\* did not panic changes it.
C5_TimeScaleGuard ==
    /\ []TimeScaleValid
    /\ [][/\ last'.op = "set_time_scale"
                => /\ \A m \in InvalidScales :
                          SetTimeScaleCall(m) => (last'.panic /\ time' = time)
                   /\ \A m \in ValidScales :
                          SetTimeScaleCall(m) => (~last'.panic /\ time'.time_scale = m)
          /\ time'.time_scale # time.time_scale
                => (last'.op = "set_time_scale" /\ ~last'.panic)]_vars

\* A rejected set_time_scale, with the scale set earlier still in place.
C5_Witness ==
    /\ last.op = "set_time_scale" /\ last.panic
    /\ time.time_scale = F32(One + One \div 2)
    /\ n_advance >= 1

\* C6: frame_number starts at 0 and always equals the number of advance_frame
\* calls made: each adds exactly 1, and no other call changes it.
C6_FrameNumberCountsFrames ==
    time.frame_number = n_advance

\* Two frames were advanced, then steps and setters ran.
C6_Witness ==
    /\ time.frame_number = 2
    /\ n_true >= 2
    /\ fixed_changed
    /\ last.op = "set_time_scale"

\* C7: absolute_real_time is the sum of the time_diff arguments so far, and
\* absolute_time the sum of each time_diff scaled by the time_scale in effect
\* at its call; set_time_scale does not touch either total.
C7_AbsoluteTimesAreSums ==
    /\ time.absolute_real_time = sum_real
    /\ time.absolute_time = sum_scaled

\* Two frames at different scales (1.0, then 1.5), then the scale set to 0.
C7_Witness ==
    /\ n_advance = 2
    /\ last.op = "set_time_scale" /\ ~last.panic
    /\ time.time_scale = F32(0)
    /\ time.absolute_real_time = 33333334
    /\ time.absolute_time = 41666667

\* C8: set_time_scale(s) with a valid s stores s, and advance_frame(d) from
\* any state then leaves delta_time = d * s, the product Duration::mul_f32
\* makes, and delta_real_time = d, whatever the deltas were before.
C8_ScaleThenFrame ==
    [][/\ last'.op = "set_time_scale"
            => \A s \in ValidScales :
                   SetTimeScaleCall(s) => (~last'.panic /\ time'.time_scale = s)
       /\ last'.op = "advance_frame"
            => \A d \in Diffs :
                   AdvanceFrameCall(d)
                       => /\ ~last'.panic
                          /\ time'.delta_time = mul_f32(d, time.time_scale)
                          /\ time'.delta_real_time = d]_vars

\* A second frame of 16666667 ns at scale 1.5, after a first frame of another
\* length: delta_time is 25000000 ns, the f32 product.
C8_Witness ==
    /\ last.op = "advance_frame" /\ ~last.panic
    /\ n_advance = 2
    /\ sum_real = 25000000
    /\ time.time_scale = F32(One + One \div 2)
    /\ time.delta_real_time = 16666667
    /\ time.delta_time = 25000000

\* C9: step_fixed_update returns true exactly when the accumulator is >=
\* fixed_time at the call, the tie included, and then takes exactly fixed_time
\* off the accumulator; otherwise it returns false and leaves the accumulator.
C9_StepIffAccumulatorCoversInterval ==
    [][last'.op = "step_fixed_update"
          => /\ last'.ret = (time.fixed_time_accumulator >= time.fixed_time)
             /\ last'.ret => time'.fixed_time_accumulator
                                 = time.fixed_time_accumulator - time.fixed_time
             /\ ~last'.ret => time'.fixed_time_accumulator
                                 = time.fixed_time_accumulator]_vars

\* The tie: one frame of exactly fixed_time, and the step that consumed it.
C9_Witness ==
    /\ last.op = "step_fixed_update" /\ last.ret
    /\ time.fixed_time = 8333333
    /\ sum_real = 8333333
    /\ n_true = 1
    /\ time.fixed_time_accumulator = 0

\* C10: while fixed_time is zero every step_fixed_update returns true and
\* leaves the accumulator and fixed_time as they are, so the next call is
\* answered true again: draining until false does not end.
C10_ZeroIntervalAlwaysSteps ==
    [][(last'.op = "step_fixed_update" /\ time.fixed_time = 0)
          => /\ last'.ret
             /\ time'.fixed_time_accumulator = time.fixed_time_accumulator
             /\ time'.fixed_time = 0]_vars

\* fixed_time is zero and MaxTrue steps in a row returned true, none of them
\* reducing the accumulated real time.
C10_Witness ==
    /\ time.fixed_time = 0
    /\ last.op = "step_fixed_update" /\ last.ret
    /\ n_true = MaxTrue
    /\ sum_real > 0
    /\ time.fixed_time_accumulator = sum_real

\* C11: advance_frame has no failure conditions: from every reachable state,
\* also with frame_number or the totals at the top of their range or with a
\* very large time_scale, it completes without panicking.
C11_AdvanceFrameNeverFails == last.op = "advance_frame" => ~last.panic

\* C12: set_fixed_time(t) stores t, zero included, and changes no other field,
\* the accumulator least of all; the step_fixed_update after it compares that
\* accumulator with the new interval, and for a positive new interval the
\* drain that follows returns true floor(accumulator / new interval) times.
C12_SetFixedTimeOnlyInterval ==
    /\ []((last.op = "set_fixed_time" /\ time.fixed_time > 0)
            => drain(time) = time.fixed_time_accumulator \div time.fixed_time)
    /\ [][/\ (last'.op = "set_fixed_time")
                => (\A t \in FixedTimes :
                       SetFixedTimeCall(t)
                           => (~last'.panic /\ time' = [time EXCEPT !.fixed_time = t]))
          /\ (last.op = "set_fixed_time" /\ last'.op = "step_fixed_update")
               => (last'.ret <=> time.fixed_time_accumulator >= time.fixed_time)]_vars

\* set_fixed_time(8333333 ns) has just replaced the default interval while
\* 16666667 ns were banked: two fixed updates are owed instead of one.
C12_Witness ==
    /\ last.op = "set_fixed_time"
    /\ fixed_changed
    /\ time.fixed_time = 8333333
    /\ time.fixed_time_accumulator = 16666667
    /\ drain(time) = 2

\* C13: the default clock has both deltas, the accumulator, frame_number and
\* both totals at 0, fixed_time = 16,666,666 ns and time_scale = 1.0, and
\* step_fixed_update on it returns false and changes no field.
C13_DefaultClock ==
    /\ [](last.op = "default"
            => /\ time.delta_time = 0
               /\ time.delta_real_time = 0
               /\ time.fixed_time = 16666666
               /\ time.fixed_time_accumulator = 0
               /\ time.frame_number = 0
               /\ time.absolute_time = 0
               /\ time.absolute_real_time = 0
               /\ time.time_scale = F32(One)
               /\ DOMAIN time = {"delta_time", "delta_real_time", "fixed_time",
                                 "fixed_time_accumulator", "frame_number",
                                 "absolute_time", "absolute_real_time", "time_scale"})
    /\ [][(last.op = "default" /\ last'.op = "step_fixed_update")
            => (~last'.ret /\ ~last'.panic /\ time' = time)]_vars

\* step_fixed_update was the first call on the default clock.
C13_Witness ==
    /\ last.op = "step_fixed_update" /\ ~last.ret
    /\ n_advance = 0 /\ n_true = 0
    /\ time = Time_default

\* C14: step_fixed_update changes no field but fixed_time_accumulator, and a
\* call that returns false changes nothing at all; so once it has returned
\* false the next call returns false too, and set_time_scale in between does
\* not alter that: only advance_frame or set_fixed_time can.
C14_StepTouchesAccumulatorOnly ==
    /\ [](Drained => ~step_fixed_update(time).ret)
    /\ [][/\ (last'.op = "step_fixed_update")
                => /\ ~last'.panic
                   /\ time' = [time EXCEPT !.fixed_time_accumulator =
                                               time'.fixed_time_accumulator]
                   /\ ~last'.ret => time' = time
                   /\ Drained => ~last'.ret
          /\ (last'.op = "set_time_scale")
                => (step_fixed_update(time').ret = step_fixed_update(time).ret)]_vars

\* Draining has ended after at least one true return, with a remainder left
\* in the accumulator.
C14_Witness ==
    /\ Drained
    /\ n_true >= 1
    /\ time.fixed_time_accumulator > 0
    /\ time.fixed_time_accumulator < time.fixed_time

\* C15: with fixed_time > 0, in every reachable state, calling
\* step_fixed_update over and over with no other call between returns true
\* exactly floor(fixed_time_accumulator / fixed_time) times and then false:
\* each true return lowers that number by one, and at zero the call returns
\* false.
C15_DrainTerminates ==
    /\ [](time.fixed_time > 0
            => drain(time) = time.fixed_time_accumulator \div time.fixed_time)
    /\ [][(last'.op = "step_fixed_update" /\ time.fixed_time > 0)
            => /\ last'.ret <=> time.fixed_time_accumulator \div time.fixed_time > 0
               /\ last'.ret
                    => (time'.fixed_time_accumulator \div time'.fixed_time
                            = time.fixed_time_accumulator \div time.fixed_time - 1)
               /\ ~last'.ret => drain(time') = 0]_vars

\* One frame of 16666667 ns at an interval of 8333333 ns was drained: two
\* true returns, then false with 1 ns left.
C15_Witness ==
    /\ Drained
    /\ n_advance = 1 /\ sum_real = 16666667
    /\ time.fixed_time = 8333333
    /\ n_true = 2
    /\ time.fixed_time_accumulator = 1

\* C16: no call ever lowers absolute_time or absolute_real_time.
C16_TotalsNeverDecrease ==
    [][/\ time'.absolute_time >= time.absolute_time
       /\ time'.absolute_real_time >= time.absolute_real_time]_vars

\* A second frame came at scale 0 after steps and setters: absolute_real_time
\* grew and absolute_time stayed where the first frame had put it.
C16_Witness ==
    /\ last.op = "advance_frame" /\ ~last.panic
    /\ n_advance = 2
    /\ n_true >= 1
    /\ time.delta_time = 0
    /\ time.delta_real_time > 0
    /\ time.absolute_time > 0
    /\ time.absolute_real_time > time.absolute_time

\* C17: while fixed_time has kept one value F since the first frame or step,
\* fixed_time_accumulator + F * (number of true returns so far) equals
\* absolute_real_time in every reachable state.
C17_AccumulatorConservation ==
    ~fixed_changed
        => time.fixed_time_accumulator + time.fixed_time * n_true
               = time.absolute_real_time

\* Two frames at an interval of 8333333 ns set before the first of them, some
\* of the owed steps taken and more than one interval still banked.
C17_Witness ==
    /\ ~fixed_changed
    /\ time.fixed_time = 8333333
    /\ n_advance = 2
    /\ n_true = 2
    /\ time.fixed_time_accumulator > time.fixed_time
    /\ time.time_scale = F32(0)

\* C18: for a constant fixed_time F > 0, once the clock has been drained the
\* number of true returns so far depends on the sum of the real deltas alone:
\* it is floor(sum / F), the count a fresh clock gives when fed the whole sum
\* in one frame and drained once, whether or not earlier frames were drained.
C18_DeferredDrainCatchesUp ==
    (~fixed_changed /\ time.fixed_time > 0 /\ Drained)
        => /\ n_true = sum_real \div time.fixed_time
           /\ n_true = drain(advance_frame(
                            [Time_default EXCEPT !.fixed_time = time.fixed_time],
                            sum_real, TRUE).time)

\* Two frames, the second advanced while fixed updates were still owed, and
\* the clock drained afterwards with three true returns in all.
C18_Witness ==
    /\ Drained
    /\ ~in_loop
    /\ ~fixed_changed
    /\ time.fixed_time = 8333333
    /\ n_advance = 2
    /\ n_true = 3

\* time_scale compares equal to 0.0 (either sign of zero).
Paused == time.time_scale.cls = "finite" /\ time.time_scale.mag = 0

\* C19: while time_scale is 0, advance_frame(d) sets delta_time to 0 and
\* leaves absolute_time alone, yet adds d to absolute_real_time and to
\* fixed_time_accumulator and adds 1 to frame_number; step_fixed_update then
\* answers as the real-time accumulator says, so fixed updates go on.
C19_PauseKeepsFixedUpdates ==
    [][/\ (last'.op = "advance_frame" /\ Paused)
            => (\A d \in Diffs :
                   AdvanceFrameCall(d)
                       => /\ ~last'.panic
                          /\ time'.delta_time = 0
                          /\ time'.delta_real_time = d
                          /\ time'.absolute_time = time.absolute_time
                          /\ time'.absolute_real_time = time.absolute_real_time + d
                          /\ time'.fixed_time_accumulator
                                 = time.fixed_time_accumulator + d
                          /\ time'.frame_number = time.frame_number + 1
                          /\ step_fixed_update(time').ret
                                 <=> (time.fixed_time_accumulator + d >= time.fixed_time))
       /\ (last'.op = "step_fixed_update" /\ Paused)
            => (last'.ret <=> time.fixed_time_accumulator >= time.fixed_time)]_vars

\* The clock was paused before its first frame; a frame came and
\* step_fixed_update returned true, with absolute_time still 0.
C19_Witness ==
    /\ last.op = "step_fixed_update" /\ last.ret
    /\ Paused
    /\ time.fixed_time > 0
    /\ time.absolute_time = 0
    /\ time.delta_time = 0
    /\ time.delta_real_time > 0
    /\ time.frame_number = 1

====
